---- MODULE Spec2Model ----
(***************************************************************************)
(* A model of the logarithmic scale (src/src/scales/logScale.ts) and of    *)
(* the number formatters (src/unnamed/part_001) of Plottable.              *)
(*                                                                         *)
(* Numbers of the scale are exact rationals <<n, d>> (d > 0, lowest        *)
(* terms); <<0, 0>> is NaN.  Loop counters of the tick generator are       *)
(* extended integers <<kind, v>> with kind in fin, pinf, ninf, nan.        *)
(***************************************************************************)
EXTENDS Integers, Sequences, FiniteSets, TLC

(***************************************************************************)
(* Bounds of the model.                                                    *)
(***************************************************************************)
\* largest minimumNumberOfTicks a scale is constructed with
MaxMinTicks == 5
\* ticks.push stops here: only a loop that never ends gets this far
MaxTickLen == 16
\* largest precision a closure is called with
MaxPrecision == 3
\* formatted numbers are c * 10^x with -MaxNegExponent <= x <= MaxExponent
MaxNegExponent == 5
MaxExponent == 18

(***************************************************************************)
(* Rational arithmetic.                                                    *)
(***************************************************************************)
Abs(n) == IF n < 0 THEN -n ELSE n

RECURSIVE GCD(_, _)
GCD(a, b) == IF b = 0 THEN a ELSE GCD(b, a % b)

RECURSIVE IPow(_, _)
IPow(b, k) == IF k <= 0 THEN 1 ELSE b * IPow(b, k - 1)

Rat(n, d) ==
    LET g == GCD(Abs(n), Abs(d))
        s == IF d < 0 THEN -1 ELSE 1
    IN  IF g = 0 THEN <<0, 0>> ELSE <<s * (n \div g), s * (d \div g)>>

NaN == <<0, 0>>
RInt(n) == <<n, 1>>
RMul(a, b) == Rat(a[1] * b[1], a[2] * b[2])
RDiv(a, b) == Rat(a[1] * b[2], a[2] * b[1])
RLess(a, b) == a[2] # 0 /\ b[2] # 0 /\ a[1] * b[2] < b[1] * a[2]
RLeq(a, b) == a[2] # 0 /\ b[2] # 0 /\ a[1] * b[2] <= b[1] * a[2]

(***************************************************************************)
(* Extended integers: the values of Math.floor / Math.ceil of a quotient   *)
(* that may be infinite or NaN.                                            *)
(***************************************************************************)
Fin(n) == <<"fin", n>>
PInf == <<"pinf", 0>>
NInf == <<"ninf", 0>>
ENaN == <<"nan", 0>>
IsFin(a) == a[1] = "fin"

\* a < b on numbers: false as soon as one side is NaN
ExtLess(a, b) ==
    CASE a[1] = "nan" \/ b[1] = "nan" -> FALSE
      [] a[1] = "fin" /\ b[1] = "fin" -> a[2] < b[2]
      [] a[1] = "ninf" -> b[1] # "ninf"
      [] a[1] = "pinf" -> FALSE
      [] OTHER -> b[1] = "pinf"

\* ++i and --i: an infinity stays what it is
ExtAdd(a, k) == IF IsFin(a) THEN Fin(a[2] + k) ELSE a

(***************************************************************************)
(* Inputs the operations are called with.                                  *)
(***************************************************************************)
\* constructor argument base: integers, valid and invalid
BaseValues == {-1, 0, 1, 2, 10}
\* constructor argument minimumNumberOfTicks (default 4)
MinTicksValues == 3..MaxMinTicks
\* bounds a caller hands to domain(): 0, 1/2, 1, 2, 3, 5, 10, 11, 100, 1000
DomainValues ==
    {<<0, 1>>, <<1, 2>>, <<1, 1>>, <<2, 1>>, <<3, 1>>, <<5, 1>>,
     <<10, 1>>, <<11, 1>>, <<100, 1>>, <<1000, 1>>}

(***************************************************************************)
(* State of one Log scale and of a running call of its tick generator.     *)
(***************************************************************************)
VARIABLES
    constructed,            \* new Log(base, minimumNumberOfTicks) has returned
    base,                   \* this._base, also this._d3Scale.base()
    minimumNumberOfTicks,   \* this._minimumNumberOfTicks
    d3Domain,               \* this._d3Scale.domain()
    thrown,                 \* what the last call threw: "none" when it returned
    domainArg,              \* the argument of the last domain() call
    pc,                     \* _logTickGenerator: idle, asc, desc, done
    i,                      \* its loop counter
    j,                      \* its loop bound
    ticks,                  \* its local array
    result                  \* what it returned

scaleVars == <<constructed, base, minimumNumberOfTicks, d3Domain, thrown, domainArg>>
tickVars == <<pc, i, j, ticks, result>>

(***************************************************************************)
(* State of one formatter: the closure a factory returned, and its last    *)
(* call.                                                                   *)
(***************************************************************************)
VARIABLES
    formatter,      \* [kind, precision] of the closure; kind "none" before
    factoryCall,    \* [kind, precision] of the last factory call
    fmtThrown,      \* what that factory call threw: "none" when it returned
    value,          \* the argument of the last call of the closure
    output,         \* the string it returned, a sequence of characters
    trace           \* the branch it took and the numbers it computed

fmtVars == <<formatter, factoryCall, fmtThrown, value, output, trace>>
vars == <<scaleVars, tickVars, fmtVars>>

(***************************************************************************)
(* Math.pow(this._base, i).  Only base 1 makes i infinite or NaN, and      *)
(* Math.pow(1, +-Infinity) and Math.pow(1, NaN) are NaN.                   *)
(***************************************************************************)
RPow(b, k) == IF k >= 0 THEN <<IPow(b, k), 1>> ELSE <<1, IPow(b, -k)>>

MathPow(b, e) == IF IsFin(e) THEN RPow(b, e[2]) ELSE NaN

(***************************************************************************)
(* floor(log_b(x)) in exact arithmetic, for an integer b >= 2 and x > 0.   *)
(***************************************************************************)
RECURSIVE LogFloorFrom(_, _, _)
LogFloorFrom(b, x, k) ==
    IF RLeq(RPow(b, k + 1), x) THEN LogFloorFrom(b, x, k + 1)
    ELSE IF ~RLeq(RPow(b, k), x) THEN LogFloorFrom(b, x, k - 1)
    ELSE k

LogFloor(b, x) == LogFloorFrom(b, x, 0)
IsPowerOf(b, x) == RPow(b, LogFloor(b, x)) = x
LogCeil(b, x) == IF IsPowerOf(b, x) THEN LogFloor(b, x) ELSE LogFloor(b, x) + 1

(***************************************************************************)
(* Math.log(x) / Math.log(b) in IEEE-754 double arithmetic.  At an exact   *)
(* power b^k the quotient of the two rounded logarithms need not be k:     *)
(* Math.log(1000) / Math.log(10) is 2.9999999999999996 and                 *)
(* Math.log(0.1) / Math.log(10) is -0.9999999999999998.  The quotients for *)
(* base 2 are exact.                                                       *)
(***************************************************************************)
\* <<b, k>> with Math.log(b^k) / Math.log(b) just below k
QuotientBelow ==
    {<<10, k>> : k \in {3, 6, 9, 12, 13, 15, 18, 21, 23, 24}}
\* <<b, k>> with Math.log(b^k) / Math.log(b) just above k
QuotientAbove ==
    {<<10, -k>> : k \in {1, 2, 3, 4, 6, 9, 12, 13, 15, 18, 21, 23, 24}}

\* Math.floor(Math.log(x) / Math.log(b)), x > 0, b >= 1
FloorLogQuotient(b, x) ==
    IF b = 1
    THEN (IF RLess(RInt(1), x) THEN PInf ELSE IF RLess(x, RInt(1)) THEN NInf ELSE ENaN)
    ELSE LET f == LogFloor(b, x)
         IN  IF IsPowerOf(b, x) /\ <<b, f>> \in QuotientBelow THEN Fin(f - 1) ELSE Fin(f)

\* Math.ceil(Math.log(x) / Math.log(b)), x > 0, b >= 1
CeilLogQuotient(b, x) ==
    IF b = 1
    THEN (IF RLess(RInt(1), x) THEN PInf ELSE IF RLess(x, RInt(1)) THEN NInf ELSE ENaN)
    ELSE LET f == LogFloor(b, x)
         IN  IF IsPowerOf(b, x) /\ <<b, f>> \notin QuotientAbove THEN Fin(f) ELSE Fin(f + 1)

(***************************************************************************)
(* The Log scale's own methods.                                            *)
(***************************************************************************)
\* _defaultExtent(): [1, this._d3Scale.base()]
DefaultExtent(b) == <<RInt(1), RInt(b)>>

\* an additive expansion around the single value, as linear scales do
ExpandSingleValueDomainAdditive(b, singleValueDomain) ==
    IF singleValueDomain[1] = singleValueDomain[2]
    THEN <<<<singleValueDomain[1][1] - singleValueDomain[1][2], singleValueDomain[1][2]>>,
           <<singleValueDomain[2][1] + singleValueDomain[2][2], singleValueDomain[2][2]>>>>
    ELSE singleValueDomain

\* _expandSingleValueDomain(singleValueDomain)
ExpandSingleValueDomain(b, singleValueDomain) ==
    IF singleValueDomain[1] = singleValueDomain[2]
    THEN <<RDiv(singleValueDomain[1], RInt(b)), RMul(singleValueDomain[2], RInt(b))>>
    ELSE singleValueDomain

(***************************************************************************)
(* QuantitativeScale (./quantitativeScale, imported by logScale.ts): its   *)
(* domain setter as the specification describes it.  A bound <= 0 is       *)
(* refused with a domain-validation error and the domain held is kept.     *)
(***************************************************************************)
DomainValid(values) == RLess(RInt(0), values[1]) /\ RLess(RInt(0), values[2])


(***************************************************************************)
(* this._d3Scale.ticks(count) of d3.scaleLog() (d3-scale 1.x, the d3 v4    *)
(* that Plottable builds on):                                              *)
(*   u, v = domain, swapped when v < u;  i = logs(u), j = logs(v)          *)
(*   if (!(base % 1) && j - i < n)                                         *)
(*     i = Math.round(i) - 1, j = Math.round(j) + 1;                       *)
(*     for (; i < j; ++i) for (k = 1, p = pows(i); k < base; ++k)          *)
(*       { t = p * k; if (t < u) continue; if (t > v) break; z.push(t); }  *)
(*   else z = ticks(i, j, Math.min(j - i, n)).map(pows);                   *)
(*   return r ? z.reverse() : z;                                           *)
(* logs is Math.log10 / Math.log2 for the bases 10 and 2, and              *)
(* Math.log(x) / Math.log(1), not a finite number, for base 1.             *)
(***************************************************************************)
RECURSIVE Reverse(_)
Reverse(s) == IF s = <<>> THEN <<>> ELSE Append(Reverse(Tail(s)), Head(s))

\* Math.round(logs(x)): the k with b^(k - 1/2) <= x < b^(k + 1/2)
RoundLog(b, x) ==
    LET f == LogFloor(b, x)
    IN  IF RLeq(RPow(b, 2 * f + 1), RMul(x, x)) THEN f + 1 ELSE f

RECURSIVE D3TicksInner(_, _, _, _, _)
D3TicksInner(b, u, v, p, k) ==
    IF k >= b THEN <<>>
    ELSE LET t == RMul(p, RInt(k))
         IN  IF RLess(t, u) THEN D3TicksInner(b, u, v, p, k + 1)
             ELSE IF RLess(v, t) THEN <<>>
             ELSE <<t>> \o D3TicksInner(b, u, v, p, k + 1)

RECURSIVE D3TicksOuter(_, _, _, _, _)
D3TicksOuter(b, u, v, lo, hi) ==
    IF lo >= hi THEN <<>>
    ELSE D3TicksInner(b, u, v, RPow(b, lo), 1) \o D3TicksOuter(b, u, v, lo + 1, hi)

\* d3.ticks(i, j, n).map(pows) when its step is 1, which it is for
\* n <= j - i < n + 1 and n >= 3: (j - i) / n < 4/3 < sqrt(2)
RECURSIVE D3PowersBetween(_, _, _)
D3PowersBetween(b, lo, hi) ==
    IF lo > hi THEN <<>> ELSE <<RPow(b, lo)>> \o D3PowersBetween(b, lo + 1, hi)

D3Ticks(dom, b, n) ==
    LET r == RLess(dom[2], dom[1])
        u == IF r THEN dom[2] ELSE dom[1]
        v == IF r THEN dom[1] ELSE dom[2]
        z == IF b = 1 THEN <<>>
             ELSE IF RLess(RDiv(v, u), RPow(b, n))
             THEN D3TicksOuter(b, u, v, RoundLog(b, u) - 1, RoundLog(b, v) + 1)
             ELSE D3PowersBetween(b, LogCeil(b, u), LogFloor(b, v))
    IN  IF r THEN Reverse(z) ELSE z

\* the fallback is only asked for ticks in the cases D3Ticks covers
D3StepIsOne(dom, b, n) ==
    LET r == RLess(dom[2], dom[1])
        u == IF r THEN dom[2] ELSE dom[1]
        v == IF r THEN dom[1] ELSE dom[2]
    IN  b = 1 \/ (n >= 3 /\ RLess(RDiv(v, u), RPow(b, n + 1)))


(***************************************************************************)
(* new Log(base, minimumNumberOfTicks): stores the arguments, builds the   *)
(* d3 scale, sets the default extent as domain through _setDomain and      *)
(* installs the tick generator.  The arguments are stored unchecked; the   *)
(* only failure is the one _setDomain raises for the extent [1, base].     *)
(***************************************************************************)
Construct(b, n) ==
    /\ ~constructed
    /\ domainArg' = DefaultExtent(b)
    /\ IF DomainValid(DefaultExtent(b))
       THEN /\ constructed' = TRUE
            /\ base' = b
            /\ minimumNumberOfTicks' = n
            /\ d3Domain' = DefaultExtent(b)
            /\ thrown' = "none"
       ELSE /\ thrown' = "DomainError"
            /\ UNCHANGED <<constructed, base, minimumNumberOfTicks, d3Domain>>
    /\ UNCHANGED <<tickVars, fmtVars>>

(***************************************************************************)
(* setTransformationDomain(domain), that is this.domain(domain): the       *)
(* setter validates, expands a single-valued domain and stores the result  *)
(* with _backingScaleDomain(values).                                       *)
(***************************************************************************)
SetTransformationDomain(values) ==
    /\ constructed
    /\ pc \in {"idle", "done"}
    /\ domainArg' = values
    /\ IF DomainValid(values)
       THEN /\ d3Domain' = ExpandSingleValueDomain(base, values)
            /\ thrown' = "none"
       ELSE /\ thrown' = "DomainError"
            /\ UNCHANGED d3Domain
    /\ pc' = "idle"
    /\ i' = Fin(0)
    /\ j' = Fin(0)
    /\ ticks' = <<>>
    /\ result' = <<>>
    /\ UNCHANGED <<constructed, base, minimumNumberOfTicks, fmtVars>>

(***************************************************************************)
(* _logTickGenerator, one action per step: the computation of i and j, one *)
(* iteration of either loop, and the return after the loop.                *)
(***************************************************************************)
LogTickStart ==
    /\ constructed
    /\ pc \in {"idle", "done"}
    /\ LET min == d3Domain[1]
           max == d3Domain[2]
           j0 == CeilLogQuotient(base, max)
           i0 == FloorLogQuotient(base, min)
       IN  /\ i' = i0
           /\ j' = j0
           /\ pc' = IF ExtLess(i0, j0) THEN "asc" ELSE "desc"
    /\ ticks' = <<>>
    /\ result' = <<>>
    /\ UNCHANGED <<scaleVars, fmtVars>>

LogTickAscend ==
    /\ pc = "asc"
    /\ ExtLess(i, j)
    /\ Len(ticks) < MaxTickLen
    /\ ticks' = Append(ticks, MathPow(base, i))
    /\ i' = ExtAdd(i, 1)
    /\ UNCHANGED <<pc, j, result, scaleVars, fmtVars>>

LogTickDescend ==
    /\ pc = "desc"
    /\ ExtLess(j, i)
    /\ Len(ticks) < MaxTickLen
    /\ ticks' = Append(ticks, MathPow(base, i))
    /\ i' = ExtAdd(i, -1)
    /\ UNCHANGED <<pc, j, result, scaleVars, fmtVars>>

\* a generator that keeps the power-of-base ticks whatever their count
LogTickResultNoFallback(t, n, dom, b) == t

\* a generator that also falls back when the count equals the minimum
LogTickResultOffByOne(t, n, dom, b) == IF Len(t) <= n THEN D3Ticks(dom, b, n) ELSE t

\* if (ticks.length < this._minimumNumberOfTicks) ... else ...
LogTickResult(t, n, dom, b) == IF Len(t) < n THEN D3Ticks(dom, b, n) ELSE t

LogTickReturn ==
    /\ \/ pc = "asc" /\ ~ExtLess(i, j)
       \/ pc = "desc" /\ ~ExtLess(j, i)
    /\ result' = LogTickResult(ticks, minimumNumberOfTicks, d3Domain, base)
    /\ pc' = "done"
    /\ UNCHANGED <<i, j, ticks, scaleVars, fmtVars>>


(***************************************************************************)
(* Formatters.  A precision is a rational; a formatted value is            *)
(* [kind, s, c, x]: the number s * c * 10^x (s the sign, c a natural       *)
(* number), or NaN, an infinity, or undefined.  A string is the sequence   *)
(* of its characters; "x" stands for the multiplication sign and "^3" for  *)
(* the superscript of 3.                                                   *)
(***************************************************************************)
PrecisionValues ==
    {RInt(k) : k \in -1..MaxPrecision} \cup {<<3, 2>>, RInt(20), RInt(21), NaN}

Coefficients == {0, 1, 5, 25, 99996, 999999, 9999996}

Num(s, c, x) == [kind |-> "number", s |-> s, c |-> c, x |-> x]
NumberValues ==
    {Num(s, c, x) : s \in {1, -1}, c \in Coefficients, x \in -MaxNegExponent..MaxExponent}
SpecialValues ==
    {[kind |-> k, s |-> s, c |-> 0, x |-> 0] : k \in {"NaN", "Infinity", "undefined"}, s \in {1, -1}}

FactoryKinds ==
    {"currency", "fixed", "general", "exponential", "percentage", "siSuffix", "shortScale"}

NoFormatter == [kind |-> "none", precision |-> RInt(0)]
NoValue == [kind |-> "none", s |-> 1, c |-> 0, x |-> 0]
NoTrace == [branch |-> "none", idx |-> 0, e |-> 0, m |-> 0]

\* Math.floor of a rational
MathFloor(a) ==
    IF a[2] = 0 THEN NaN
    ELSE IF a[1] >= 0 THEN RInt(a[1] \div a[2])
    ELSE RInt(-((-a[1] + a[2] - 1) \div a[2]))

\* a !== b on numbers: NaN differs from everything, itself included
StrictNotEqual(a, b) == a[2] = 0 \/ b[2] = 0 \/ a # b

\* a check of the range alone, which lets a fractional precision through
verifyPrecisionRangeOnly(precision) ==
    IF RLess(precision, RInt(0)) \/ RLess(RInt(20), precision) THEN "RangeError"
    ELSE "none"

\* verifyPrecision(precision): what it throws, "none" when it returns
verifyPrecision(precision) ==
    IF RLess(precision, RInt(0)) \/ RLess(RInt(20), precision) THEN "RangeError"
    ELSE IF StrictNotEqual(precision, MathFloor(precision)) THEN "RangeError"
    ELSE "none"

\* a factory's outcome: what it threw and the closure it returned
Returned(kind, precision) ==
    [thrown |-> "none", closure |-> [kind |-> kind, precision |-> precision]]
Threw(error) == [thrown |-> error, closure |-> NoFormatter]

fixed(precision) ==
    IF verifyPrecision(precision) # "none" THEN Threw(verifyPrecision(precision))
    ELSE Returned("fixed", precision)

general(maxNumberOfDecimalPlaces) ==
    IF verifyPrecision(maxNumberOfDecimalPlaces) # "none"
    THEN Threw(verifyPrecision(maxNumberOfDecimalPlaces))
    ELSE Returned("general", maxNumberOfDecimalPlaces)

exponential(maxNumberOfDecimalPlaces) ==
    IF verifyPrecision(maxNumberOfDecimalPlaces) # "none"
    THEN Threw(verifyPrecision(maxNumberOfDecimalPlaces))
    ELSE Returned("exponential", maxNumberOfDecimalPlaces)

siSuffix(numberOfSignificantFigures) ==
    IF verifyPrecision(numberOfSignificantFigures) # "none"
    THEN Threw(verifyPrecision(numberOfSignificantFigures))
    ELSE Returned("siSuffix", numberOfSignificantFigures)

shortScale(precision) ==
    IF verifyPrecision(precision) # "none" THEN Threw(verifyPrecision(precision))
    ELSE Returned("shortScale", precision)

\* const fixedFormatter = fixed(precision); return (d) => ...
currency(precision) ==
    IF fixed(precision).thrown # "none" THEN Threw(fixed(precision).thrown)
    ELSE Returned("currency", precision)

percentage(precision) ==
    IF fixed(precision).thrown # "none" THEN Threw(fixed(precision).thrown)
    ELSE Returned("percentage", precision)

Factory(kind, precision) ==
    CASE kind = "currency" -> currency(precision)
      [] kind = "fixed" -> fixed(precision)
      [] kind = "general" -> general(precision)
      [] kind = "exponential" -> exponential(precision)
      [] kind = "percentage" -> percentage(precision)
      [] kind = "siSuffix" -> siSuffix(precision)
      [] OTHER -> shortScale(precision)


(***************************************************************************)
(* Strings of numbers.                                                     *)
(***************************************************************************)
DigitChars == <<"0", "1", "2", "3", "4", "5", "6", "7", "8", "9">>

RECURSIVE Digits(_)
Digits(n) == IF n < 10 THEN <<DigitChars[n + 1]>> ELSE Digits(n \div 10) \o <<DigitChars[(n % 10) + 1]>>

\* the last w digits of n, with leading zeros
RECURSIVE Pad(_, _)
Pad(n, w) == IF w <= 0 THEN <<>> ELSE Pad(n \div 10, w - 1) \o <<DigitChars[(n % 10) + 1]>>

RECURSIVE Zeros(_)
Zeros(k) == IF k <= 0 THEN <<>> ELSE <<"0">> \o Zeros(k - 1)

RECURSIVE StripZeros(_)
StripZeros(s) ==
    IF s # <<>> /\ s[Len(s)] = "0" THEN StripZeros(SubSeq(s, 1, Len(s) - 1)) ELSE s

NumDigits(c) == Len(Digits(c))

\* String(e) of an integer
IntString(e) == (IF e < 0 THEN <<"-">> ELSE <<>>) \o Digits(Abs(e))

\* String(s * m / 10^n) of a number with at most n decimals: no trailing zeros
NumberString(s, m, n) ==
    LET frac == StripZeros(Pad(m % IPow(10, n), n))
    IN  (IF s < 0 /\ m # 0 THEN <<"-">> ELSE <<>>)
        \o Digits(m \div IPow(10, n))
        \o (IF frac = <<>> THEN <<>> ELSE <<".">> \o frac)

\* unicode_superscript(s): the characters of superscript_dict are replaced
SuperscriptOf(c) ==
    CASE c = "0" -> "^0" [] c = "1" -> "^1" [] c = "2" -> "^2" [] c = "3" -> "^3"
      [] c = "4" -> "^4" [] c = "5" -> "^5" [] c = "6" -> "^6" [] c = "7" -> "^7"
      [] c = "8" -> "^8" [] c = "9" -> "^9" [] c = "+" -> "^+" [] c = "-" -> "^-"
      [] c = "." -> "^." [] OTHER -> c

unicode_superscript(s) == [n \in 1..Len(s) |-> SuperscriptOf(s[n])]

StartsWith(s, prefix) == Len(s) >= Len(prefix) /\ SubSeq(s, 1, Len(prefix)) = prefix

(***************************************************************************)
(* Rounding c * 10^y to an integer.  The source rounds a double that is    *)
(* only near c * 10^y: where the exact value lies halfway between two      *)
(* integers the double may lie on either side, and tieUp says on which.    *)
(***************************************************************************)
RoundScaled(c, y, tieUp) ==
    IF y >= 0 THEN c * IPow(10, y)
    ELSE LET q == IPow(10, -y)
             rem == c % q
         IN  (c \div q) + (IF 2 * rem > q \/ (2 * rem = q /\ tieUp) THEN 1 ELSE 0)

\* floor(log10(c * 10^x)) in exact arithmetic, c > 0
Magnitude(num) == NumDigits(num.c) - 1 + num.x

IsPowerOfTen(num) == num.c = IPow(10, NumDigits(num.c) - 1)

(***************************************************************************)
(* The closure of exponential(maxNumberOfDecimalPlaces).                   *)
(***************************************************************************)
\* Math.floor(Math.log(sign * d) / Math.log(10)), in doubles
FloorLog10Quotient(d) ==
    IF IsPowerOfTen(d) /\ <<10, Magnitude(d)>> \in QuotientBelow
    THEN Magnitude(d) - 1
    ELSE Magnitude(d)

\* String(d) of a value that is zero or not a finite number
SpecialString(d) ==
    CASE d.kind = "number" -> <<"0">>
      [] d.kind = "NaN" -> <<"N", "a", "N">>
      [] d.kind = "undefined" -> <<"u", "n", "d", "e", "f", "i", "n", "e", "d">>
      [] OTHER -> (IF d.s < 0 THEN <<"-">> ELSE <<>>)
                  \o <<"I", "n", "f", "i", "n", "i", "t", "y">>

\* the rendering of a finite nonzero d, given the exponent e
ExponentialRender(n, d, e, tieUp) ==
    LET m_rounded == RoundScaled(d.c, d.x - e + n, tieUp)
    IN  IF e = 0
        THEN [output |-> NumberString(d.s, m_rounded, n),
              trace |-> [branch |-> "plain", idx |-> 0, e |-> e, m |-> m_rounded]]
        ELSE IF m_rounded = IPow(10, n)
        THEN [output |-> (IF d.s > 0 THEN <<"1", "0">> ELSE <<"-", "1", "0">>)
                         \o unicode_superscript(IntString(e)),
              trace |-> [branch |-> "power", idx |-> 0, e |-> e, m |-> m_rounded]]
        ELSE [output |-> NumberString(d.s, m_rounded, n) \o <<"x", "1", "0">>
                         \o unicode_superscript(IntString(e)),
              trace |-> [branch |-> "mantissa", idx |-> 0, e |-> e, m |-> m_rounded]]

ExponentialFormat(n, d, tieUp) ==
    IF d.kind # "number" \/ d.c = 0
    THEN [output |-> SpecialString(d),
          trace |-> [branch |-> "string", idx |-> 0, e |-> 0, m |-> 0]]
    ELSE ExponentialRender(n, d, FloorLog10Quotient(d), tieUp)


(***************************************************************************)
(* The closure of shortScale(precision).                                   *)
(***************************************************************************)
suffixes == <<"K", "M", "B", "T", "Q">>

\* d3.format("." + precision + "f") of s * c * 10^y: the sign and
\* toFixed(precision) of the magnitude (here it never rounds to zero)
D3FormatFixed(precision, s, c, y, tieUp) ==
    LET scaled == RoundScaled(c, y + precision, tieUp)
        unit == IPow(10, precision)
    IN  (IF s < 0 /\ c # 0 THEN <<"-">> ELSE <<>>)
        \o (IF y >= 0
            THEN (IF c = 0 THEN <<"0">> ELSE Digits(c) \o Zeros(y))
                 \o (IF precision > 0 THEN <<".">> \o Zeros(precision) ELSE <<>>)
            ELSE Digits(scaled \div unit)
                 \o (IF precision > 0 THEN <<".">> \o Pad(scaled % unit, precision) ELSE <<>>))

\* d3.format("." + precision + "e") of a nonzero number: the sign and
\* toExponential(precision) of the magnitude
D3FormatExponent(precision, num, tieUp) ==
    LET digits == NumDigits(num.c)
        first == RoundScaled(num.c, precision - (digits - 1), tieUp)
        carried == first = IPow(10, precision + 1)
        mantissa == IF carried THEN IPow(10, precision) ELSE first
        e == Magnitude(num) + (IF carried THEN 1 ELSE 0)
    IN  (IF num.s < 0 THEN <<"-">> ELSE <<>>)
        \o Digits(mantissa \div IPow(10, precision))
        \o (IF precision > 0
            THEN <<".">> \o Pad(mantissa % IPow(10, precision), precision)
            ELSE <<>>)
        \o <<"e", IF e < 0 THEN "-" ELSE "+">> \o Digits(Abs(e))

\* absNum >= Math.pow(10, t)
AtLeastPow10(num, t) == num.c # 0 /\ Magnitude(num) >= t

\* while (absNum >= Math.pow(1000, idx + 2) && idx < (suffixes.length - 1)) idx++
RECURSIVE ShortScaleIdx(_, _)
ShortScaleIdx(num, idx) ==
    IF AtLeastPow10(num, 3 * (idx + 2)) /\ idx < Len(suffixes) - 1
    THEN ShortScaleIdx(num, idx + 1)
    ELSE idx

\* fixedFormatter(num / Math.pow(1000, idx + 1)) + suffixes[idx], and
\* fixedFormatter(num) for idx = -1
ShortScaleFixed(precision, num, idx, tieUp) ==
    D3FormatFixed(precision, num.s, num.c, num.x - 3 * (idx + 1), tieUp)
    \o (IF idx = -1 THEN <<>> ELSE <<suffixes[idx + 1]>>)

\* a formatter that does not look at what the rounding produced
NeverRoundedToThousand(num, out) == FALSE

\* catch rounding by the underlying d3 formatter
RoundedToThousand(num, out) ==
    \/ num.s > 0 /\ num.c # 0 /\ StartsWith(out, <<"1", "0", "0", "0">>)
    \/ num.s < 0 /\ num.c # 0 /\ StartsWith(out, <<"-", "1", "0", "0", "0">>)

ShortScaleFormat(precision, num, tieUp) ==
    LET max == 3 * (Len(suffixes) + 1)
        idx == ShortScaleIdx(num, -1)
        first == ShortScaleFixed(precision, num, idx, tieUp)
    IN  IF num.c # 0 /\ (~AtLeastPow10(num, -precision) \/ AtLeastPow10(num, max))
        THEN [output |-> D3FormatExponent(precision, num, tieUp),
              trace |-> [branch |-> "exponent", idx |-> -1, e |-> 0, m |-> 0]]
        ELSE IF ~RoundedToThousand(num, first)
        THEN [output |-> first,
              trace |-> [branch |-> "fixed", idx |-> idx, e |-> 0, m |-> 0]]
        ELSE IF idx < Len(suffixes) - 1
        THEN [output |-> ShortScaleFixed(precision, num, idx + 1, tieUp),
              trace |-> [branch |-> "nextTier", idx |-> idx + 1, e |-> 0, m |-> 0]]
        ELSE [output |-> D3FormatExponent(precision, num, tieUp),
              trace |-> [branch |-> "topTierExponent", idx |-> idx, e |-> 0, m |-> 0]]

(***************************************************************************)
(* Operations on formatters.                                               *)
(***************************************************************************)
\* a call of one of the factories
CallFactory(kind, precision) ==
    /\ factoryCall' = [kind |-> kind, precision |-> precision]
    /\ LET returned == Factory(kind, precision)
       IN  fmtThrown' = returned.thrown /\ formatter' = returned.closure
    /\ value' = NoValue
    /\ output' = <<>>
    /\ trace' = NoTrace
    /\ UNCHANGED <<scaleVars, tickVars>>

\* a call of the closure exponential returned
CallExponential(d, tieUp) ==
    /\ formatter.kind = "exponential"
    /\ formatter.precision[1] <= MaxPrecision
    /\ value' = d
    /\ LET returned == ExponentialFormat(formatter.precision[1], d, tieUp)
       IN  output' = returned.output /\ trace' = returned.trace
    /\ UNCHANGED <<formatter, factoryCall, fmtThrown, scaleVars, tickVars>>

\* a call of the closure shortScale returned
CallShortScale(num, tieUp) ==
    /\ formatter.kind = "shortScale"
    /\ formatter.precision[1] <= MaxPrecision
    /\ value' = num
    /\ LET returned == ShortScaleFormat(formatter.precision[1], num, tieUp)
       IN  output' = returned.output /\ trace' = returned.trace
    /\ UNCHANGED <<formatter, factoryCall, fmtThrown, scaleVars, tickVars>>

(***************************************************************************)
(* The specifications: one scale, and one formatter.                       *)
(***************************************************************************)
ScaleInit ==
    /\ constructed = FALSE
    /\ base = 0
    /\ minimumNumberOfTicks = 0
    /\ d3Domain = <<RInt(1), RInt(10)>>
    /\ thrown = "none"
    /\ domainArg = <<RInt(1), RInt(10)>>
    /\ pc = "idle"
    /\ i = Fin(0)
    /\ j = Fin(0)
    /\ ticks = <<>>
    /\ result = <<>>

FormatterInit ==
    /\ formatter = NoFormatter
    /\ factoryCall = NoFormatter
    /\ fmtThrown = "none"
    /\ value = NoValue
    /\ output = <<>>
    /\ trace = NoTrace

Init == ScaleInit /\ FormatterInit

Next ==
    \/ \E b \in BaseValues, n \in MinTicksValues : Construct(b, n)
    \/ \E lo \in DomainValues, hi \in DomainValues : SetTransformationDomain(<<lo, hi>>)
    \/ LogTickStart
    \/ LogTickAscend
    \/ LogTickDescend
    \/ LogTickReturn

Spec == Init /\ [][Next]_vars

FormatterNext ==
    \/ \E kind \in FactoryKinds, precision \in PrecisionValues : CallFactory(kind, precision)
    \/ \E d \in NumberValues \cup SpecialValues, tieUp \in BOOLEAN : CallExponential(d, tieUp)
    \/ \E num \in NumberValues, tieUp \in BOOLEAN : CallShortScale(num, tieUp)

FormatterSpec == Init /\ [][FormatterNext]_vars


(***************************************************************************)
(* Adequacy of the model: the fallback asks d3 for ticks only where        *)
(* D3Ticks covers d3's step, and a loop over finite numbers ends before    *)
(* MaxTickLen.                                                             *)
(***************************************************************************)
ModelCoversRun ==
    /\ pc = "done" /\ Len(ticks) < minimumNumberOfTicks
          => D3StepIsOne(d3Domain, base, minimumNumberOfTicks)
    /\ pc \in {"asc", "desc"} /\ IsFin(i) /\ IsFin(j) => Len(ticks) < MaxTickLen

(***************************************************************************)
(* Claims.                                                                 *)
(***************************************************************************)
IsValidPrecision(p) == p[2] = 1 /\ p[1] >= 0 /\ p[1] <= 20

Ascending(s) == \A m \in 1..(Len(s) - 1) : RLess(s[m], s[m + 1])
Contains(s, x) == \E m \in 1..Len(s) : s[m] = x

\* C1: every factory that takes a precision throws a RangeError, returns no
\* closure and formats nothing when the precision is below 0, above 20 or
\* not an integer, and returns its closure for every integer in 0..20.
PrecisionCheckedAtConstruction ==
    factoryCall.kind # "none" =>
        IF IsValidPrecision(factoryCall.precision)
        THEN fmtThrown = "none" /\ formatter = factoryCall
        ELSE /\ fmtThrown = "RangeError"
             /\ formatter = NoFormatter
             /\ value = NoValue
             /\ output = <<>>

\* C1 witness: currency(1.5) has thrown
PrecisionRejected ==
    /\ factoryCall = [kind |-> "currency", precision |-> <<3, 2>>]
    /\ fmtThrown = "RangeError"

\* C2: a constructed Log scale never holds a base <= 0 or = 1 nor a domain
\* with a bound <= 0, and a domain() call with such a bound throws.
LogScaleHoldsOnlyValidInputs ==
    constructed =>
        /\ base > 0
        /\ base # 1
        /\ DomainValid(d3Domain)
        /\ ~DomainValid(domainArg) => thrown = "DomainError"

\* C3 (as claimed): with base 10 and domain [1, 1000] the ticks returned
\* are ascending and contain 1, 10, 100 and 1000, whatever
\* minimumNumberOfTicks is.
LogTicksOfThreeDecades ==
    constructed /\ base = 10 /\ d3Domain = <<RInt(1), RInt(1000)>> /\ pc = "done" =>
        /\ Ascending(result)
        /\ \A x \in {1, 10, 100, 1000} : Contains(result, RInt(x))

\* C3 (amended): they are ascending and contain 1, 10, 100 and 1000 when
\* minimumNumberOfTicks >= 4; for minimumNumberOfTicks <= 3 they are
\* exactly 1, 10, 100.
LogTicksOfThreeDecadesFromFour ==
    constructed /\ base = 10 /\ d3Domain = <<RInt(1), RInt(1000)>> /\ pc = "done" =>
        /\ Ascending(result)
        /\ minimumNumberOfTicks >= 4 => \A x \in {1, 10, 100, 1000} : Contains(result, RInt(x))
        /\ minimumNumberOfTicks <= 3 => result = <<RInt(1), RInt(10), RInt(100)>>

\* C3 witness: the default scale has returned ticks with 1000 for [1, 1000]
LogTicksOfThreeDecadesReturned ==
    /\ constructed /\ base = 10 /\ minimumNumberOfTicks = 4
    /\ d3Domain = <<RInt(1), RInt(1000)>>
    /\ pc = "done"
    /\ Contains(result, RInt(1000))

\* C4 (as claimed): for a valid base the generator returns the power ticks
\* when there are at least minimumNumberOfTicks of them, and otherwise a
\* sequence of at least minimumNumberOfTicks ticks.
LogTicksFallbackReachesMinimum ==
    constructed /\ base >= 2 /\ pc = "done" =>
        /\ Len(ticks) >= minimumNumberOfTicks => result = ticks
        /\ Len(ticks) < minimumNumberOfTicks => Len(result) >= minimumNumberOfTicks

\* C4 (amended): the generator returns the power ticks when there are at
\* least minimumNumberOfTicks of them and otherwise the d3 scale's
\* ticks(minimumNumberOfTicks), however many those are; for base 10,
\* domain [1, 10] and minimumNumberOfTicks 4 these are at least 4.
LogTicksFallbackToD3 ==
    constructed /\ pc = "done" =>
        /\ Len(ticks) >= minimumNumberOfTicks => result = ticks
        /\ Len(ticks) < minimumNumberOfTicks
              => result = D3Ticks(d3Domain, base, minimumNumberOfTicks)
        /\ base = 10 /\ d3Domain = <<RInt(1), RInt(10)>> /\ minimumNumberOfTicks = 4
              => Len(ticks) < 4 /\ Len(result) >= 4

\* C4 witness: the fallback has run for [1, 10] and returned 4 ticks or more
LogTicksFellBack ==
    /\ constructed /\ base = 10 /\ minimumNumberOfTicks = 4
    /\ d3Domain = <<RInt(1), RInt(10)>>
    /\ pc = "done"
    /\ Len(ticks) < 4
    /\ Len(result) >= 4

\* the rendering C5 describes: e is floor(log10(|d|))
ExponentialReference(n, d, tieUp) ==
    IF d.kind # "number" \/ d.c = 0 THEN SpecialString(d)
    ELSE ExponentialRender(n, d, Magnitude(d), tieUp).output

\* C5: exponential(N)(d) is the reference rendering of d; exponential(3)
\* gives "0" for 0, "10^3" for 1000, "-10^3" for -1000, "2.5x10^3" for 2500.
ExponentialIsReference ==
    formatter.kind = "exponential" /\ value.kind # "none" =>
        /\ \E tieUp \in BOOLEAN :
              output = ExponentialReference(formatter.precision[1], value, tieUp)
        /\ formatter.precision = RInt(3) =>
              /\ value = Num(1, 1, 3) => output = <<"1", "0", "^3">>
              /\ value = Num(-1, 1, 3) => output = <<"-", "1", "0", "^3">>
              /\ value = Num(1, 25, 2) => output = <<"2", ".", "5", "x", "1", "0", "^3">>
              /\ value.kind = "number" /\ value.c = 0 => output = <<"0">>

IsScientific(out) == Contains(out, "e")

\* C6 (as claimed): the output of shortScale never begins with 1000 or
\* -1000, and shortScale(3)(999999) is in the M tier or scientific.
ShortScaleExampleLeavesK ==
    formatter.kind = "shortScale" /\ value.kind = "number" =>
        /\ ~StartsWith(output, <<"1", "0", "0", "0">>)
        /\ ~StartsWith(output, <<"-", "1", "0", "0", "0">>)
        /\ formatter.precision = RInt(3) /\ value = Num(1, 999999, 0)
              => output[Len(output)] = "M" \/ IsScientific(output)

\* C6 (amended): the output of shortScale never begins with 1000 or -1000:
\* a value that rounds to 1000 in its tier is shown in the next tier, or in
\* scientific notation from tier Q; shortScale(0)(999999) is "1M", and
\* shortScale(3)(999999), which does not round, is "999.999K".
ShortScaleNeverShowsThousand ==
    formatter.kind = "shortScale" /\ value.kind = "number" =>
        /\ ~StartsWith(output, <<"1", "0", "0", "0">>)
        /\ ~StartsWith(output, <<"-", "1", "0", "0", "0">>)
        /\ trace.branch = "nextTier" =>
              /\ trace.idx = ShortScaleIdx(value, -1) + 1
              /\ output[Len(output)] = suffixes[trace.idx + 1]
        /\ trace.branch = "topTierExponent" =>
              ShortScaleIdx(value, -1) = Len(suffixes) - 1 /\ IsScientific(output)
        /\ formatter.precision = RInt(0) /\ value = Num(1, 999999, 0)
              => output = <<"1", "M">>
        /\ formatter.precision = RInt(3) /\ value = Num(1, 999999, 0)
              => output = <<"9", "9", "9", ".", "9", "9", "9", "K">>

\* C6 witness: shortScale(0)(999999) has rounded to 1000K and returned 1M
ShortScaleBumped ==
    /\ formatter = [kind |-> "shortScale", precision |-> RInt(0)]
    /\ value = Num(1, 999999, 0)
    /\ trace.branch = "nextTier"
    /\ output = <<"1", "M">>

\* 10^-p < |num| < 10^15
InsideShortScaleInterval(p, num) ==
    /\ AtLeastPow10(num, -p)
    /\ ~(IsPowerOfTen(num) /\ Magnitude(num) = -p)
    /\ ~AtLeastPow10(num, 15)

\* C7: shortScale(p)(num) is in scientific notation exactly when num # 0 and
\* |num| is outside the open interval (10^-p, 10^15); zero is in fixed form.
ShortScaleScientificOutsideInterval ==
    formatter.kind = "shortScale" /\ value.kind = "number" =>
        IF value.c = 0 THEN ~IsScientific(output)
        ELSE IsScientific(output) <=> ~InsideShortScaleInterval(formatter.precision[1], value)

\* C8: for a scale of base b > 0, _expandSingleValueDomain of the domain
\* handed to the scale is [v / b, v * b] when the domain is [v, v], which
\* is [0.5, 50] for [5, 5] and base 10, and is the domain itself when its
\* two bounds differ.
ExpandedDomainIsMultiplied ==
    constructed /\ base > 0 =>
        LET expanded == ExpandSingleValueDomain(base, domainArg)
        IN  /\ domainArg[1] = domainArg[2] =>
                  expanded = <<Rat(domainArg[1][1], domainArg[1][2] * base),
                               Rat(domainArg[1][1] * base, domainArg[1][2])>>
            /\ domainArg[1] # domainArg[2] => expanded = domainArg
            /\ base = 10 /\ domainArg = <<RInt(5), RInt(5)>>
                  => expanded = <<<<1, 2>>, <<50, 1>>>>

\* C8 witness: domain([5, 5]) on a base-10 scale has stored [0.5, 50]
SingleValueDomainExpanded ==
    /\ constructed /\ base = 10 /\ thrown = "none"
    /\ domainArg = <<RInt(5), RInt(5)>>
    /\ d3Domain = <<<<1, 2>>, <<50, 1>>>>

\* C9: the tick generator ends and returns at least one tick: a loop that
\* is about to iterate counts between finite numbers (++i and --i leave an
\* infinite i where it is, and no finite i reaches an infinite j, so such a
\* loop never ends), and the result is not empty.
LogTicksEndNonEmpty ==
    /\ pc = "asc" /\ ExtLess(i, j) => IsFin(i) /\ IsFin(j)
    /\ pc = "desc" /\ ExtLess(j, i) => IsFin(i) /\ IsFin(j)
    /\ pc = "done" => result # <<>>

\* C10: the mantissa exponential(N) shows in front of x10 is at least 1 and
\* below 10; the output never starts with 10x10.
ExponentialMantissaBelowTen ==
    formatter.kind = "exponential" /\ trace.branch = "mantissa" =>
        /\ trace.m >= IPow(10, formatter.precision[1])
        /\ trace.m < 10 * IPow(10, formatter.precision[1])
        /\ ~StartsWith(output, <<"1", "0", "x">>)
        /\ ~StartsWith(output, <<"-", "1", "0", "x">>)


====
